---- MODULE Spec2Model ----
(***************************************************************************)
(* Model of cura/PrinterOutput/UploadMaterialsJob.py: the job that uploads *)
(* a material archive to the Digital Factory in three phases (request an   *)
(* upload slot, upload the bytes, confirm with every printer).             *)
(*                                                                         *)
(* The job runs on one thread: every handler below is one atomic step.     *)
(* The transport (HttpRequestManager), the registry and the archive        *)
(* producer (exportAll) are the environment: each issued request resolves  *)
(* exactly once, through its callback or its error callback.               *)
(***************************************************************************)
EXTENDS Integers, Sequences, FiniteSets, TLC

\* ------------------------------------------------------------------ bounds
\* Longest list of printers the registry returns.
MaxTargets == 3

\* ------------------------------------------------------- values of the code
\* Progress values are floats in the code; here they are exact multiples of
\* 1/Scale (Scale is divisible by 5 and by every list length up to 6).
Scale == 2 * 2 * 3 * 5

None == "None"

\* class Result(enum.IntEnum): the members are SUCCCESS and FAILED.
Result == [SUCCCESS |-> "Result.SUCCCESS", FAILED |-> "Result.FAILED"]

ErrCorrupted == "The response from Digital Factory appears to be corrupted."
ErrMissingInfo == "The response from Digital Factory is missing important information."
ErrConnect == "Failed to connect to Digital Factory."
ErrSomePrinters == "Failed to connect to Digital Factory to sync materials with some of the printers."

\* ------------------------------------------------------------ environment
\* Container stacks the registry can return: printer p2 is known in two
\* clusters, so two stacks can carry the same host_guid.
Stacks ==
    { [um_cloud_cluster_id |-> "c1", host_guid |-> "p1"],
      [um_cloud_cluster_id |-> "c1", host_guid |-> "p2"],
      [um_cloud_cluster_id |-> "c2", host_guid |-> "p2"],
      [um_cloud_cluster_id |-> "c2", host_guid |-> "p3"] }

\* The lists findContainerStacksMetadata can return: every stack at most once.
StackLists ==
    { l \in UNION { [1..n -> Stacks] : n \in 0..MaxTargets } :
        \A i, j \in DOMAIN l : l[i] = l[j] => i = j }

\* Fractions the archive producer reports, in units of 1/Scale.
Fractions == {0, Scale \div 2, Scale}

\* What readJSON makes of the reply to the upload request.
ResponseFields == {"upload_url", "material_profile_id"}
Replies == { [parsed |-> FALSE, fields |-> {}] }
           \cup { [parsed |-> TRUE, fields |-> f] : f \in SUBSET ResponseFields }
NoReply == [parsed |-> FALSE, fields |-> {}]

VARIABLES
    pc,                   \* position of run(): "idle", "exporting", "started"
    printer_metadata,     \* self._printer_metadata
    printer_sync_status,  \* self._printer_sync_status
    archive_remote_id,    \* self._archive_remote_id
    result,               \* Job._result
    error,                \* Job._error
    slotReq,              \* the PUT of run(): "none", "pending", "replied", "error"
    slotReply,            \* the reply it resolved with
    uploadReq,            \* the PUT of onUploadRequestCompleted: "none", "pending", "ok", "error"
    confirmReq,           \* the GETs of onUploadCompleted, one per stack: "pending", "ok", "error"
    lastFraction,         \* last fraction the archive producer reported (-1: none)
    producerOK,           \* the producer's fractions have been non-decreasing so far
    lastProgress,         \* last value emitted on uploadProgressChanged (-1: none)
    lastProgressSrc,      \* the handler that emitted it
    uploadCompleted       \* emissions of uploadCompleted, in order: the result and
                          \* error carried, with the last progress value emitted and
                          \* the status table as they are at the emission

vars == <<pc, printer_metadata, printer_sync_status, archive_remote_id, result, error,
          slotReq, slotReply, uploadReq, confirmReq, lastFraction, producerOK,
          lastProgress, lastProgressSrc, uploadCompleted>>

\* ------------------------------------------------------------ pure helpers
Values(f) == { f[k] : k \in DOMAIN f }

\* onUploadRequestCompleted, lines 101-113: the error the reply is rejected
\* with, None when it is accepted.
ReplyErrorNoIdCheck(reply) ==
    IF ~reply.parsed THEN ErrCorrupted
    ELSE IF "upload_url" \notin reply.fields THEN ErrMissingInfo
    ELSE None

ReplyErrorNoUrlCheck(reply) ==
    IF ~reply.parsed THEN ErrCorrupted
    ELSE IF "material_profile_id" \notin reply.fields THEN ErrMissingInfo
    ELSE None

ReplyErrorAsConnect(reply) ==
    IF ~reply.parsed THEN ErrConnect
    ELSE IF "upload_url" \notin reply.fields THEN ErrMissingInfo
    ELSE IF "material_profile_id" \notin reply.fields THEN ErrMissingInfo
    ELSE None

ReplyError(reply) ==
    IF ~reply.parsed THEN ErrCorrupted
    ELSE IF "upload_url" \notin reply.fields THEN ErrMissingInfo
    ELSE IF "material_profile_id" \notin reply.fields THEN ErrMissingInfo
    ELSE None

\* dict[key] = value: the key is entered when the dict does not hold it.
SetItem(dict, key, value) ==
    [k \in DOMAIN dict \cup {key} |-> IF k = key THEN value ELSE dict[k]]

\* onUploadConfirmed, lines 141-145: the status table after one confirmation.
ConfirmedStatusAllFailed(status, printer_id, failure) ==
    IF failure THEN [p \in DOMAIN status \cup {printer_id} |-> "failed"]
    ELSE SetItem(status, printer_id, "success")

ConfirmedStatus(status, printer_id, failure) ==
    IF failure THEN SetItem(status, printer_id, "failed")
    ELSE SetItem(status, printer_id, "success")

\* run(), lines 71-72: the status table after the loop over the stacks.
InitialStatusNoLoop(stacks) == [p \in {} |-> "uploading"]

InitialStatus(stacks) ==
    [p \in { stacks[i].host_guid : i \in DOMAIN stacks } |-> "uploading"]

\* onUploadConfirmed, line 150: this is the last response to be processed.
IsLastResponseOffByOne(still_uploading) == still_uploading <= 1

IsLastResponse(still_uploading) == still_uploading = 0

\* onUploadConfirmed, line 148: 0.8 + (len - still_uploading) / len.
ConfirmProgressStillUploading(resolved, total) ==
    (Scale * 4) \div 5 + (Scale * (total - resolved)) \div total

ConfirmProgress(resolved, total) ==
    (Scale * 4) \div 5 + (Scale * resolved) \div total

\* _onProcessProgressChanged, line 181: progress * 0.8.
ProcessProgress(progress) == (progress * 4) \div 5

\* getPrinterSyncStatus, line 163.
getPrinterSyncStatus == printer_sync_status

\* ------------------------------------------------------------------- Init
Init ==
    /\ pc = "idle"
    /\ printer_metadata = <<>>
    /\ printer_sync_status = <<>>
    /\ archive_remote_id = None
    /\ result = None
    /\ error = None
    /\ slotReq = "none"
    /\ slotReply = NoReply
    /\ uploadReq = "none"
    /\ confirmReq = <<>>
    /\ lastFraction = -1
    /\ producerOK = TRUE
    /\ lastProgress = -1
    /\ lastProgressSrc = "none"
    /\ uploadCompleted = <<>>

\* ---------------------------------------------------------------- actions
\* failed(error), lines 165-178.
failedKeepsError(err) ==
    /\ result' = Result.FAILED
    /\ error' = error
    /\ printer_sync_status' = [p \in DOMAIN printer_sync_status |-> "failed"]
    /\ lastProgress' = Scale
    /\ lastProgressSrc' = "failed"
    /\ uploadCompleted' = Append(uploadCompleted,
          [result |-> Result.FAILED, error |-> error, progress |-> Scale,
           status |-> printer_sync_status'])

failedLeavesStatus(err) ==
    /\ result' = Result.FAILED
    /\ error' = err
    /\ printer_sync_status' = printer_sync_status
    /\ lastProgress' = Scale
    /\ lastProgressSrc' = "failed"
    /\ uploadCompleted' = Append(uploadCompleted,
          [result |-> Result.FAILED, error |-> err, progress |-> Scale,
           status |-> printer_sync_status'])

failed(err) ==
    /\ result' = Result.FAILED
    /\ error' = err
    /\ printer_sync_status' = [p \in DOMAIN printer_sync_status |-> "failed"]
    /\ lastProgress' = Scale
    /\ lastProgressSrc' = "failed"
    /\ uploadCompleted' = Append(uploadCompleted,
          [result |-> Result.FAILED, error |-> err, progress |-> Scale,
           status |-> printer_sync_status'])

\* run(), lines 64-76: take the list of the registry, enter every printer
\* into the status table, then start exportAll.
run(stacks) ==
    /\ pc = "idle"
    /\ pc' = "exporting"
    /\ printer_metadata' = stacks
    /\ printer_sync_status' = InitialStatus(stacks)
    /\ UNCHANGED <<archive_remote_id, result, error, slotReq, slotReply, uploadReq,
                   confirmReq, lastFraction, producerOK, lastProgress,
                   lastProgressSrc, uploadCompleted>>

\* _onProcessProgressChanged(progress), lines 180-181, called by exportAll
\* through processProgressChanged while run() is inside exportAll.
onProcessProgressChanged(progress) ==
    /\ pc = "exporting"
    /\ lastFraction' = progress
    /\ producerOK' = (producerOK /\ progress >= lastFraction)
    /\ lastProgress' = ProcessProgress(progress)
    /\ lastProgressSrc' = "process"
    /\ UNCHANGED <<pc, printer_metadata, printer_sync_status, archive_remote_id,
                   result, error, slotReq, slotReply, uploadReq, confirmReq,
                   uploadCompleted>>

\* run(), lines 78-98: exportAll has returned; issue the upload request.
runRequestUpload ==
    /\ pc = "exporting"
    /\ pc' = "started"
    /\ slotReq' = "pending"
    /\ UNCHANGED <<printer_metadata, printer_sync_status, archive_remote_id, result,
                   error, slotReply, uploadReq, confirmReq, lastFraction, producerOK,
                   lastProgress, lastProgressSrc, uploadCompleted>>

\* onUploadRequestCompleted(reply), lines 100-125.
onUploadRequestCompleted(reply) ==
    /\ slotReq = "pending"
    /\ slotReq' = "replied"
    /\ slotReply' = reply
    /\ IF ReplyError(reply) # None
       THEN /\ failed(ReplyError(reply))
            /\ UNCHANGED <<archive_remote_id, uploadReq>>
       ELSE /\ archive_remote_id' = "material_profile_id"
            /\ uploadReq' = "pending"
            /\ UNCHANGED <<printer_sync_status, result, error, lastProgress,
                           lastProgressSrc, uploadCompleted>>
    /\ UNCHANGED <<pc, printer_metadata, confirmReq, lastFraction, producerOK>>

\* onError, lines 158-160: the error callback of both PUT requests.
onError ==
    /\ \/ /\ slotReq = "pending"
          /\ slotReq' = "error"
          /\ UNCHANGED uploadReq
       \/ /\ uploadReq = "pending"
          /\ uploadReq' = "error"
          /\ UNCHANGED slotReq
    /\ failed(ErrConnect)
    /\ UNCHANGED <<pc, printer_metadata, archive_remote_id, slotReply, confirmReq,
                   lastFraction, producerOK>>

\* onUploadCompleted, lines 127-138: one confirm request per stack.
onUploadCompleted ==
    /\ uploadReq = "pending"
    /\ uploadReq' = "ok"
    /\ confirmReq' = [i \in DOMAIN printer_metadata |-> "pending"]
    /\ UNCHANGED <<pc, printer_metadata, printer_sync_status, archive_remote_id,
                   result, error, slotReq, slotReply, lastFraction, producerOK,
                   lastProgress, lastProgressSrc, uploadCompleted>>

\* onUploadConfirmed(printer_id, reply, error), lines 140-156, for the
\* confirm request of stack i; failure: the error argument is not None.
\* Result has no member SUCCESS: looking it up raises AttributeError, which
\* ends the handler before setResult and before uploadCompleted.emit.
onUploadConfirmed(i, failure) ==
    /\ i \in DOMAIN confirmReq
    /\ confirmReq[i] = "pending"
    /\ confirmReq' = [confirmReq EXCEPT ![i] = IF failure THEN "error" ELSE "ok"]
    /\ LET printer_id == printer_metadata[i].host_guid
           status == ConfirmedStatus(printer_sync_status, printer_id, failure)
           still_uploading ==
               Cardinality({ p \in DOMAIN status : status[p] = "uploading" })
           total == Cardinality(DOMAIN status)
           anyFailed == "failed" \in Values(status)
       IN  /\ printer_sync_status' = status
           /\ lastProgress' = ConfirmProgress(total - still_uploading, total)
           /\ lastProgressSrc' = "confirm"
           /\ IF IsLastResponse(still_uploading)
              THEN IF anyFailed
                   THEN /\ result' = Result.FAILED
                        /\ error' = ErrSomePrinters
                        /\ uploadCompleted' = Append(uploadCompleted,
                              [result |-> Result.FAILED, error |-> ErrSomePrinters,
                               progress |-> lastProgress', status |-> status])
                   ELSE IF "SUCCESS" \in DOMAIN Result
                        THEN /\ result' = Result.SUCCESS
                             /\ error' = error
                             /\ uploadCompleted' = Append(uploadCompleted,
                                   [result |-> Result.SUCCESS, error |-> error,
                                    progress |-> lastProgress', status |-> status])
                        ELSE UNCHANGED <<result, error, uploadCompleted>>
              ELSE UNCHANGED <<result, error, uploadCompleted>>
    /\ UNCHANGED <<pc, printer_metadata, archive_remote_id, slotReq, slotReply,
                   uploadReq, lastFraction, producerOK>>

Next ==
    \/ \E stacks \in StackLists : run(stacks)
    \/ \E progress \in Fractions : onProcessProgressChanged(progress)
    \/ runRequestUpload
    \/ \E reply \in Replies : onUploadRequestCompleted(reply)
    \/ onError
    \/ onUploadCompleted
    \/ \E i \in 1..MaxTargets, failure \in BOOLEAN : onUploadConfirmed(i, failure)

Spec == Init /\ [][Next]_vars

\* Every issued request resolves, and exportAll returns.
FairSpec ==
    /\ Spec
    /\ WF_vars(runRequestUpload)
    /\ WF_vars(\E reply \in Replies : onUploadRequestCompleted(reply))
    /\ WF_vars(onError)
    /\ WF_vars(onUploadCompleted)
    /\ WF_vars(\E i \in 1..MaxTargets, failure \in BOOLEAN : onUploadConfirmed(i, failure))

\* ------------------------------------------------------- derived notions
NumSlotRequests == IF slotReq = "none" THEN 0 ELSE 1
NumUploadRequests == IF uploadReq = "none" THEN 0 ELSE 1
NumConfirmRequests == Len(confirmReq)

AllConfirmationsResolved ==
    /\ uploadReq = "ok"
    /\ \A i \in DOMAIN confirmReq : confirmReq[i] # "pending"

DistinctPrinters ==
    \A i, j \in DOMAIN printer_metadata :
        printer_metadata[i].host_guid = printer_metadata[j].host_guid => i = j

TypeOK ==
    /\ pc \in {"idle", "exporting", "started"}
    /\ printer_metadata \in StackLists
    /\ result \in {None, Result.FAILED, Result.SUCCCESS}
    /\ slotReq \in {"none", "pending", "replied", "error"}
    /\ uploadReq \in {"none", "pending", "ok", "error"}
    /\ lastProgress \in -1..(2 * Scale)

IsSuccess(r) == r \notin {None, Result.FAILED}

Resolved(status) == Cardinality({ p \in DOMAIN status : status[p] # "uploading" })

\* ----------------------------------------------------------------- claims

\* C1: a job started with a non-empty list of printers eventually emits
\* uploadCompleted, whatever the outcomes of its requests.
C1_EventuallyCompleted ==
    (pc = "started" /\ printer_metadata # <<>>) ~> (uploadCompleted # <<>>)

\* C2: uploadCompleted is emitted at most once per job, whatever list the
\* registry returned and in whatever order the confirmations arrive.
C2_AtMostOneCompletion == Len(uploadCompleted) <= 1

\* C3: a failure of the upload request (transport error, unparseable reply,
\* reply without upload_url or material_profile_id) ends the job FAILED with
\* no upload and no confirm request issued; a transport failure of the byte
\* upload ends the job FAILED with no confirm request issued.
SlotRequestFailed ==
    \/ slotReq = "error"
    \/ /\ slotReq = "replied"
       /\ (~slotReply.parsed \/ slotReply.fields # ResponseFields)

C3_FatalFailureSendsNoConfirmations ==
    /\ SlotRequestFailed =>
          /\ result = Result.FAILED
          /\ Len(uploadCompleted) = 1
          /\ NumUploadRequests = 0
          /\ NumConfirmRequests = 0
    /\ uploadReq = "error" =>
          /\ result = Result.FAILED
          /\ Len(uploadCompleted) = 1
          /\ NumConfirmRequests = 0

C3_Witness ==
    /\ slotReq = "replied"
    /\ slotReply.parsed
    /\ slotReply.fields = {"upload_url"}
    /\ printer_metadata # <<>>

\* C4: when the last confirmation has resolved, the job has completed with
\* FAILED if some printer is "failed" and with SUCCESS and no error if every
\* printer is "success".
C4_ResultAggregation ==
    (AllConfirmationsResolved /\ printer_metadata # <<>>) =>
        /\ uploadCompleted # <<>>
        /\ IF "failed" \in Values(printer_sync_status)
           THEN /\ result = Result.FAILED
                /\ uploadCompleted[Len(uploadCompleted)].result = Result.FAILED
           ELSE /\ IsSuccess(result)
                /\ error = None
                /\ IsSuccess(uploadCompleted[Len(uploadCompleted)].result)
                /\ uploadCompleted[Len(uploadCompleted)].error = None

\* C5: with distinct printer identifiers, the status of every printer is
\* decided by its own confirmation alone: "uploading" while it is pending,
\* "success" when it resolved without error, "failed" when it resolved with
\* one, in every interleaving and whatever the other confirmations did.
OwnStatus(req) ==
    IF req = "ok" THEN "success" ELSE IF req = "error" THEN "failed" ELSE "uploading"

C5_PerPrinterOutcome ==
    (DistinctPrinters /\ uploadReq = "ok") =>
        \A i \in DOMAIN confirmReq :
            getPrinterSyncStatus[printer_metadata[i].host_guid] = OwnStatus(confirmReq[i])

C5_Witness ==
    /\ DistinctPrinters
    /\ confirmReq = <<"ok", "error", "ok">>
    /\ getPrinterSyncStatus[printer_metadata[1].host_guid] = "success"
    /\ getPrinterSyncStatus[printer_metadata[2].host_guid] = "failed"
    /\ getPrinterSyncStatus[printer_metadata[3].host_guid] = "success"

\* C6: a job whose registry returns no printer fails at once and issues no
\* network request.
C6_NoTargetsNoRequests ==
    (pc = "started" /\ printer_metadata = <<>>) =>
        /\ result = Result.FAILED
        /\ NumSlotRequests = 0
        /\ NumUploadRequests = 0
        /\ NumConfirmRequests = 0

\* C7: as long as the archive producer reports non-decreasing fractions, no
\* value emitted on uploadProgressChanged is below the one emitted before it.
C7_ProgressMonotone == [][producerOK' => lastProgress' >= lastProgress]_vars

C7_Witness ==
    /\ producerOK
    /\ lastFraction = Scale
    /\ lastProgressSrc = "confirm"
    /\ Resolved(printer_sync_status) >= 2

\* C8: a value emitted by a confirmation is 0.8 + 0.2 * resolved / total, and
\* so lies in [0.8, 1.0].
C8_ConfirmProgressFormula ==
    lastProgressSrc = "confirm" =>
        /\ 5 * Cardinality(DOMAIN printer_sync_status) * (lastProgress - (Scale * 4) \div 5)
              = Scale * Resolved(printer_sync_status)
        /\ lastProgress >= (Scale * 4) \div 5
        /\ lastProgress <= Scale

\* C9: the last progress value emitted before uploadCompleted is 1.0.
C9_ProgressEndsAtOne ==
    \A k \in DOMAIN uploadCompleted : uploadCompleted[k].progress = Scale

\* C10: whenever the result is set, and in every uploadCompleted emission,
\* the error is present exactly when the result is FAILED.
C10_ErrorIffFailed ==
    /\ result # None => (error # None <=> result = Result.FAILED)
    /\ \A k \in DOMAIN uploadCompleted :
          uploadCompleted[k].error # None <=> uploadCompleted[k].result = Result.FAILED

C10_Witness ==
    /\ result = Result.FAILED
    /\ error = ErrSomePrinters
    /\ uploadCompleted # <<>>
    /\ "success" \in Values(printer_sync_status)

\* C11: the error carried by uploadCompleted names the cause: the connection
\* message for a transport failure of the upload request or of the byte
\* upload, a malformed-response message for a reply that is unparseable or
\* lacks a field, the some-printers message for failed confirmations, and
\* never a message of another class.
MalformedResponseErrors == {ErrCorrupted, ErrMissingInfo}

C11_ErrorIdentifiesCause ==
    /\ ErrConnect \notin MalformedResponseErrors \cup {ErrSomePrinters}
    /\ ErrSomePrinters \notin MalformedResponseErrors
    /\ (slotReq = "error" \/ uploadReq = "error") =>
          /\ error = ErrConnect
          /\ uploadCompleted # <<>>
    /\ SlotRequestFailed /\ slotReq = "replied" =>
          /\ error \in MalformedResponseErrors
          /\ uploadCompleted # <<>>
    /\ \A k \in DOMAIN uploadCompleted :
          /\ (slotReq = "error" \/ uploadReq = "error") =>
                uploadCompleted[k].error = ErrConnect
          /\ SlotRequestFailed /\ slotReq = "replied" =>
                uploadCompleted[k].error \in MalformedResponseErrors
          /\ uploadReq = "ok" =>
                /\ uploadCompleted[k].error = ErrSomePrinters
                /\ "error" \in Values(confirmReq)

C11_Witness ==
    /\ slotReq = "replied"
    /\ ~slotReply.parsed
    /\ uploadCompleted # <<>>
    /\ uploadCompleted[1].error = ErrCorrupted

\* C12: every printer is "uploading" until the first request is issued, and
\* a status that is "success" or "failed" never changes again.
C12_StatusLifecycle ==
    /\ [](slotReq \in {"none", "pending"} =>
             \A p \in DOMAIN printer_sync_status : printer_sync_status[p] = "uploading")
    /\ [][\A p \in DOMAIN printer_sync_status :
             printer_sync_status[p] # "uploading" =>
                 printer_sync_status'[p] = printer_sync_status[p]]_vars

\* C13: the byte upload is issued only after the upload request was answered
\* with both fields and the archive id stored, confirm requests only after
\* the byte upload succeeded; at most one phase has a request in flight and
\* a resolved request never becomes pending again.
PhasesInFlight ==
    { ph \in {"request", "upload", "confirm"} :
        \/ ph = "request" /\ slotReq = "pending"
        \/ ph = "upload" /\ uploadReq = "pending"
        \/ ph = "confirm" /\ "pending" \in Values(confirmReq) }

C13_StrictPhaseOrder ==
    /\ [](/\ uploadReq # "none" =>
                /\ slotReq = "replied"
                /\ slotReply.parsed
                /\ slotReply.fields = ResponseFields
                /\ archive_remote_id # None
          /\ confirmReq # <<>> => uploadReq = "ok"
          /\ Cardinality(PhasesInFlight) <= 1)
    /\ [][/\ slotReq \notin {"none", "pending"} => slotReq' = slotReq
          /\ uploadReq \notin {"none", "pending"} => uploadReq' = uploadReq
          /\ confirmReq # <<>> =>
                /\ DOMAIN confirmReq' = DOMAIN confirmReq
                /\ \A i \in DOMAIN confirmReq :
                      confirmReq[i] # "pending" => confirmReq'[i] = confirmReq[i]]_vars

C13_Witness ==
    /\ slotReq = "replied"
    /\ uploadReq = "ok"
    /\ archive_remote_id # None
    /\ "pending" \in Values(confirmReq)
    /\ "ok" \in Values(confirmReq)

\* C14: once the result is set, no step changes the result, the error or an
\* entry of the status table, and the job is not finalized a second time.
C14_TerminalImmutable ==
    [][result # None =>
          /\ result' = result
          /\ error' = error
          /\ printer_sync_status' = printer_sync_status
          /\ uploadCompleted' = uploadCompleted]_vars

\* C15: the status table has one entry per stack of the list and one confirm
\* request is issued per stack: requests, entries and stacks are equal in
\* number, also when two stacks carry the same host_guid.
C15_FanOutOneToOne ==
    /\ pc # "idle" => Cardinality(DOMAIN printer_sync_status) = Len(printer_metadata)
    /\ uploadReq = "ok" =>
          /\ NumConfirmRequests = Len(printer_metadata)
          /\ NumConfirmRequests = Cardinality(DOMAIN printer_sync_status)

\* C16: after failed(), every printer is "failed", the result is FAILED and
\* the error is the one of the failure; the progress 1.0 and the completion
\* are emitted with all of that in place.
C16_FailedMarksAll ==
    lastProgressSrc = "failed" =>
        /\ \A p \in DOMAIN printer_sync_status : printer_sync_status[p] = "failed"
        /\ result = Result.FAILED
        /\ error = IF slotReq = "error" \/ uploadReq = "error" THEN ErrConnect
                   ELSE IF slotReply.parsed THEN ErrMissingInfo
                   ELSE ErrCorrupted
        /\ lastProgress = Scale
        /\ uploadCompleted =
              << [result |-> Result.FAILED, error |-> error, progress |-> Scale,
                  status |-> printer_sync_status] >>

C16_Witness ==
    /\ lastProgressSrc = "failed"
    /\ uploadReq = "error"
    /\ Cardinality(DOMAIN printer_sync_status) >= 2

\* C17: when uploadCompleted is emitted, and ever after, no printer of the
\* status table is "uploading".
C17_NoneUploadingAtCompletion ==
    uploadCompleted # <<>> =>
        /\ "uploading" \notin Values(printer_sync_status)
        /\ \A k \in DOMAIN uploadCompleted :
              "uploading" \notin Values(uploadCompleted[k].status)

C17_Witness ==
    /\ uploadCompleted # <<>>
    /\ uploadReq = "ok"
    /\ Cardinality(DOMAIN printer_sync_status) >= 2
    /\ "success" \in Values(printer_sync_status)

\* C18: for a job with at least one printer, once uploadCompleted has been
\* emitted, the result FAILED comes with at least one "failed" printer and
\* the result SUCCESS with every printer "success".
C18_ResultAgreesWithStatus ==
    (uploadCompleted # <<>> /\ printer_metadata # <<>>) =>
        /\ result = Result.FAILED => "failed" \in Values(printer_sync_status)
        /\ IsSuccess(result) => Values(printer_sync_status) = {"success"}

\* C19: whenever a confirmation is outstanding, the status table holds the
\* printer it is for, so the table is not empty when onUploadConfirmed
\* divides by its size.
C19_StatusTableNonEmpty ==
    /\ \A i \in DOMAIN confirmReq :
          confirmReq[i] = "pending" =>
              /\ printer_metadata[i].host_guid \in DOMAIN printer_sync_status
              /\ Cardinality(DOMAIN printer_sync_status) >= 1
    /\ lastProgressSrc = "confirm" => Cardinality(DOMAIN printer_sync_status) >= 1

C19_Witness ==
    /\ "pending" \in Values(confirmReq)
    /\ lastProgressSrc = "confirm"
    /\ Cardinality(DOMAIN printer_sync_status) = 1

====
